---- MODULE Spec2Model ----
(***************************************************************************)
(* The Status Sync Client of the research agent front end: the React hook  *)
(* useExecutionStatus (frontend/src/hooks/useExecutionStatus.ts).          *)
(* One hook instance keeps a local view of a session's execution status,   *)
(* fed by a WebSocket push channel and by a REST poll fallback.            *)
(*                                                                         *)
(* The hook is single threaded: every action below is one callback of the  *)
(* hook run to completion (an effect run, a socket event handler, a timer  *)
(* callback, the continuation of an awaited fetch).                        *)
(***************************************************************************)
EXTENDS Integers, Sequences, FiniteSets, TLC

\* ---------------------------------------------------------------- bounds
MaxChannels == 3        \* WebSockets constructed in one run of Spec
MaxAttachments == 2     \* effect runs with a session id in one run of Spec
MaxChannelsBackoff == 6 \* WebSockets constructed in one run of SpecBackoff
MaxChannelsStream == 2  \* WebSockets constructed in one run of SpecStream
MaxEvents == 2          \* frames delivered in one run of SpecStream
MaxFetches == 1         \* fetches started by the poll timer or by refresh()
MaxPings == 1           \* keep-alive pings sent by the ping timer
MaxExtra == 3           \* envelopes applied beyond the log capacity (SpecLog)
MaxApplied == 2         \* frames delivered in one run of SpecApply
MaxTasks == 3           \* tasks a plan can hold (SpecPlan)
MaxOps == 2             \* tracker operations in one run of SpecPlan
MaxApprovals == 2       \* approve_plan requests the modal sends (SpecDashboard)
MaxEdits == 2           \* plan edit requests the editor sends (SpecDashboard)

\* ------------------------------------------------------ program constants
WS_RECONNECT_DELAY == 3000
WS_MAX_RECONNECT_ATTEMPTS == 5
LOG_KEEP == 99          \* prev.slice(0, 99)
CLOSE_NORMAL == 1000    \* the close code the close handler tests for

Sessions == {"s1", "s2"}
NoSession == "none"

\* null / undefined of a React state or of a fetch result
Null == [null |-> TRUE]
\* a cleared interval ref
NoTimer == [att |-> 0, sid |-> NoSession]
NoError == "none"

Min(a, b) == IF a < b THEN a ELSE b

VARIABLES
    sessionId,            \* the hook's argument (NoSession for null)
    attachment,           \* number of effect runs with a session id so far
    status, progress, agents, plan, activityLog,
    isConnected, isLoading, error,   \* the hook's React state
    wsRef,                \* 0 for null, else the id of a WebSocket
    pollIntervalRef,      \* NoTimer, or the closure of the running poll timer
    pingIntervalRef,      \* 0 for null, else the WebSocket the ping timer uses
    reconnectAttemptsRef,
    reconnectTimeoutRef,  \* 0 for null, else the id of a timeout
    sockets,              \* the WebSockets that still can raise events
    created,              \* number of WebSockets constructed so far
    timeouts,             \* the pending reconnect timeouts, in the order of arming
    inflight,             \* fetchData calls awaiting their responses
    nextId,               \* source of log entry ids (Date.now() + random)
    sent,                 \* control messages the client has sent, by type
    events,               \* messages delivered so far
    fetches,              \* timer / refresh fetches started so far
    stream,               \* the frames the gateway is going to send (SpecLog)
    exhaustedIn,          \* the effect run in which the counter last reached the maximum
    tracker,              \* the Execution Tracker's record of the session (plan, approval)
    showApprovalModal,    \* StatusDashboard: the approval modal is presented
    editedPlan,           \* PlanApprovalModal: the task list it would send as modifications
    localPlan,            \* PlanEditor: the task list it renders
    approvals,            \* approve_plan requests the modal has sent
    edits                 \* plan edit requests the editor has sent

refs == <<wsRef, pollIntervalRef, pingIntervalRef, reconnectAttemptsRef,
          reconnectTimeoutRef>>
view_data == <<status, progress, agents, plan>>
view == <<status, progress, agents, plan, activityLog, isConnected,
          isLoading, error>>
env == <<sockets, created, timeouts, inflight, nextId, sent, events, fetches>>
hook == <<sessionId, attachment, view, refs, env, stream, exhaustedIn>>
dashboard == <<showApprovalModal, editedPlan, localPlan, approvals, edits>>
vars == <<hook, tracker, dashboard>>

\* the current effect run, 0 while the session id is null
Cur == IF sessionId = NoSession THEN 0 ELSE attachment

\* ------------------------------------------------------------ the log
\* ActivityLogEntry: id, type, content (timestamp is the moment of the id)
LogEntry(id, type, content) == [id |-> id, type |-> type, content |-> content]

Prefix(s, n) == SubSeq(s, 1, Min(Len(s), n))

AddLogEntry_KeepAll(log, entry) == <<entry>> \o Prefix(log, LOG_KEEP + 1)

AddLogEntry_Append(log, entry) == Prefix(log, LOG_KEEP) \o <<entry>>

AddLogEntry_DropNewest(log, entry) == <<entry>> \o SubSeq(log, 2, Min(Len(log), LOG_KEEP + 1))

\* addLogEntry: [entry, ...prev.slice(0, 99)]
AddLogEntry(log, entry) == <<entry>> \o Prefix(log, LOG_KEEP)

\* ------------------------------------------------------ server payloads
Agents == {"researcher"}
Tools == {"search"}
PhaseNames == {"planning", "researching"}

ExecutionStatus(sid, phase, agent, prog) ==
    [session_id |-> sid, current_phase |-> phase, active_agent |-> agent,
     progress |-> prog]

ServerStatuses(sid) == {ExecutionStatus(sid, p, "none", 0) : p \in PhaseNames}

ServerProgress(sid) == {[current_phase |-> p, overall_progress |-> 0] : p \in {"planning"}}

ServerPlans(sid) == {[main_goal |-> sid, tasks |-> <<1, 2>>]}

ServerAgents(sid) == {<<>>, <<[agent |-> "researcher", status |-> "running"]>>}

\* WebSocketEvent: {type, session_id, data, timestamp}
WebSocketEvent(type, sid, data) ==
    [parsed |-> TRUE, type |-> type, session_id |-> sid, data |-> data]

\* a frame whose text JSON.parse rejects
Unparseable == [parsed |-> FALSE, type |-> "", session_id |-> NoSession, data |-> Null]

Catalog ==
    {"session.started", "phase.changed", "agent.started", "agent.progress",
     "agent.completed", "tool.invoked", "tool.completed", "plan.created",
     "session.completed", "session.error", "status.update"}

\* the payloads the gateway sends with each type of the catalog
Payloads(type, sid) ==
    CASE type = "session.started" -> {[query |-> "q"]}
      [] type = "phase.changed" -> {[phase |-> p] : p \in {"researching"}}
      [] type \in {"agent.started", "agent.completed"} -> {[agent |-> a] : a \in Agents}
      [] type = "agent.progress" -> {[agent |-> a, progress |-> 50] : a \in Agents}
      [] type \in {"tool.invoked", "tool.completed"} -> {[tool |-> t] : t \in Tools}
      [] type = "plan.created" -> {[plan |-> p] : p \in ServerPlans(sid)}
      [] type = "session.completed" -> {[report |-> "r"]}
      [] type = "session.error" -> {[error |-> "boom"]}
      [] type = "status.update" ->
            {[status |-> s] : s \in {ExecutionStatus(sid, "researching", "none", 0)}}
            \cup {[status |-> Null]}

CatalogEnvelopes(sid) ==
    UNION {{WebSocketEvent(t, sid, d) : d \in Payloads(t, sid)} : t \in Catalog}

ControlFrames(sid) == {WebSocketEvent(t, sid, Null) : t \in {"ping", "pong"}}

\* a field the payload lacks reads as undefined; in a template literal it
\* renders as the text "undefined"
Undefined == [undefined |-> TRUE]
UndefinedText == "undefined"

\* envelopes that parse but lack the field their type needs (data is {})
LackingEnvelopes(sid) ==
    {WebSocketEvent("phase.changed", sid, [phase |-> UndefinedText]),
     WebSocketEvent("plan.created", sid, [plan |-> Undefined]),
     WebSocketEvent("session.error", sid, [error |-> UndefinedText])}

\* ------------------------------------------------ handleWebSocketMessage
\* the log entry a message adds, or Null when it adds none
LoggedEntry(msg, id) ==
    CASE ~msg.parsed -> Null
      [] msg.type = "session.started" ->
            LogEntry(id, "message", <<"Research session started">>)
      [] msg.type = "phase.changed" ->
            LogEntry(id, "phase", <<"Phase changed to", msg.data.phase>>)
      [] msg.type = "agent.started" ->
            LogEntry(id, "agent", <<"Agent", msg.data.agent, "started">>)
      [] msg.type = "agent.completed" ->
            LogEntry(id, "agent", <<"Agent", msg.data.agent, "completed">>)
      [] msg.type = "tool.invoked" ->
            LogEntry(id, "tool", <<"Tool", msg.data.tool, "invoked">>)
      [] msg.type = "tool.completed" ->
            LogEntry(id, "tool", <<"Tool", msg.data.tool, "completed">>)
      [] msg.type = "plan.created" ->
            LogEntry(id, "message", <<"Research plan created">>)
      [] msg.type = "session.completed" ->
            LogEntry(id, "complete", <<"Research completed">>)
      [] msg.type = "session.error" ->
            LogEntry(id, "error", <<"Error:", msg.data.error>>)
      [] OTHER -> Null

Logs(msg) == LoggedEntry(msg, 0) # Null

StatusAfter(msg, prev) ==
    CASE ~msg.parsed -> prev
      [] msg.type = "agent.progress" ->
            IF prev # Null
            THEN [prev EXCEPT !.active_agent = msg.data.agent,
                              !.progress = msg.data.progress]
            ELSE Null
      [] msg.type = "status.update" ->
            IF msg.data.status # Null THEN msg.data.status ELSE prev
      [] OTHER -> prev

PlanAfter(msg, prev) ==
    IF msg.parsed /\ msg.type = "plan.created" THEN msg.data.plan ELSE prev

ErrorAfter(msg, prev) ==
    IF msg.parsed /\ msg.type = "session.error" THEN msg.data.error ELSE prev

HandleWebSocketMessage(msg) ==
    /\ status' = StatusAfter(msg, status)
    /\ plan' = PlanAfter(msg, plan)
    /\ error' = ErrorAfter(msg, error)
    /\ IF Logs(msg)
       THEN /\ activityLog' = AddLogEntry(activityLog, LoggedEntry(msg, nextId))
            /\ nextId' = nextId + 1
       ELSE UNCHANGED <<activityLog, nextId>>
    /\ UNCHANGED <<progress, agents, isConnected, isLoading>>

\* ------------------------------------------------------------ fetchData
\* fetchData up to its await: the four requests are on their way
FetchDataStart(sid) ==
    /\ isLoading' = TRUE
    /\ inflight' = [inflight EXCEPT ![sid] = @ + 1]

\* what getSessionStatus / Progress / Agents / Plan can resolve to; each of
\* them catches every failure and resolves to null (or to [])
StatusResults(sid) == ServerStatuses(sid) \cup {Null}
ProgressResults(sid) == ServerProgress(sid) \cup {Null}
AgentsResults(sid) == ServerAgents(sid)
PlanResults(sid) == ServerPlans(sid) \cup {Null}

\* fetchData after its await
FetchDataDone(sid, statusData, progressData, agentsData, planData) ==
    /\ inflight[sid] > 0
    /\ inflight' = [inflight EXCEPT ![sid] = @ - 1]
    /\ status' = IF statusData # Null THEN statusData ELSE status
    /\ progress' = IF progressData # Null THEN progressData ELSE progress
    /\ agents' = agentsData
    /\ plan' = IF planData # Null THEN planData ELSE plan
    /\ error' = NoError
    /\ isLoading' = FALSE
    /\ UNCHANGED <<dashboard, tracker, stream, exhaustedIn, sessionId, attachment, activityLog, isConnected, refs,
                   sockets, created, timeouts, nextId, sent, events, fetches>>

\* every combination of the four results
AllOutcomes(sid) ==
    StatusResults(sid) \X ProgressResults(sid) \X AgentsResults(sid) \X PlanResults(sid)

\* the server answers all four requests, or none of them
CoarseOutcomes(sid) ==
    {<<ExecutionStatus(sid, "planning", "none", 0),
       [current_phase |-> "planning", overall_progress |-> 0],
       <<[agent |-> "researcher", status |-> "running"]>>,
       [main_goal |-> sid, tasks |-> <<1, 2>>]>>,
     <<Null, Null, <<>>, Null>>}

FetchComplete(sid, r) == FetchDataDone(sid, r[1], r[2], r[3], r[4])

\* ------------------------------------------------------------ the effect
\* a new WebSocket of the effect run att; late: that run was cleaned up before
Socket(att, sid, reconn) ==
    [att |-> att, sid |-> sid, state |-> "CONNECTING", opened |-> FALSE,
     reconn |-> reconn, late |-> reconn /\ att # Cur]

\* WebSocket.close(): only a connecting or open socket starts closing
CloseSocket(s) ==
    IF s.state \in {"CONNECTING", "OPEN"} THEN [s EXCEPT !.state = "CLOSING"] ELSE s

\* cleanup: the socket of wsRef is closed, the timers of the refs are cleared
SocketsAfterCleanup ==
    [i \in DOMAIN sockets |-> IF i = wsRef THEN CloseSocket(sockets[i]) ELSE sockets[i]]

TimeoutsAfterCleanup == SelectSeq(timeouts, LAMBDA t : t.id # reconnectTimeoutRef)

\* connectWebSocket of the effect run att (session sid), on the sockets socks
ConnectWebSocket(att, sid, reconn, socks, ws, lim) ==
    IF reconnectAttemptsRef >= WS_MAX_RECONNECT_ATTEMPTS
    THEN /\ sockets' = socks
         /\ wsRef' = ws
         /\ created' = created
    ELSE /\ created < lim.channels
         /\ created' = created + 1
         /\ sockets' = socks @@ ((created + 1) :> Socket(att, sid, reconn))
         /\ wsRef' = created + 1

\* the effect body for a session id: fetch, poll timer, first connection
RunEffect(s, socks, ws, poll, lim) ==
    /\ attachment < lim.attachments
    /\ attachment' = attachment + 1
    /\ sessionId' = s
    /\ FetchDataStart(s)
    /\ pollIntervalRef' =
          IF poll = NoTimer THEN [att |-> attachment + 1, sid |-> s] ELSE poll
    /\ ConnectWebSocket(attachment + 1, s, FALSE, socks, ws, lim)

\* the hook's session id goes from null to s
Attach(s, lim) ==
    /\ sessionId = NoSession
    /\ RunEffect(s, sockets, wsRef, pollIntervalRef, lim)
    /\ UNCHANGED <<dashboard, tracker, stream, exhaustedIn, view_data, activityLog, isConnected, error, pingIntervalRef,
                   reconnectAttemptsRef, reconnectTimeoutRef, timeouts,
                   nextId, sent, events, fetches>>

\* the hook's session id goes from one session to another: cleanup, effect
Switch(s, lim) ==
    /\ sessionId # NoSession
    /\ sessionId # s
    /\ RunEffect(s, SocketsAfterCleanup, 0, NoTimer, lim)
    /\ pingIntervalRef' = 0
    /\ reconnectTimeoutRef' = 0
    /\ timeouts' = TimeoutsAfterCleanup
    /\ UNCHANGED <<dashboard, tracker, stream, exhaustedIn, view_data, activityLog, isConnected, error,
                   reconnectAttemptsRef, nextId, sent, events, fetches>>

\* the hook's session id goes to null: cleanup, then the effect clears the view
Detach ==
    /\ sessionId # NoSession
    /\ sessionId' = NoSession
    /\ sockets' = SocketsAfterCleanup
    /\ wsRef' = 0
    /\ pollIntervalRef' = NoTimer
    /\ pingIntervalRef' = 0
    /\ reconnectTimeoutRef' = 0
    /\ timeouts' = TimeoutsAfterCleanup
    /\ status' = Null
    /\ progress' = Null
    /\ agents' = <<>>
    /\ plan' = Null
    /\ activityLog' = <<>>
    /\ UNCHANGED <<dashboard, tracker, stream, exhaustedIn, attachment, isConnected, isLoading, error,
                   reconnectAttemptsRef, created, inflight, nextId, sent,
                   events, fetches>>

\* ------------------------------------------------------ socket handlers
Remove(socks, c) == [i \in DOMAIN socks \ {c} |-> socks[i]]

AttemptsAfterOpen_Kept(n) == n

\* ws.onopen: reconnectAttemptsRef.current = 0
AttemptsAfterOpen(n) == 0

\* ws.onopen: the poll timer is cleared
PollAfterOpen(poll) == NoTimer

\* ws.onopen of socket c
WsOpen(c) ==
    /\ c \in DOMAIN sockets
    /\ sockets[c].state = "CONNECTING"
    /\ sockets' = [sockets EXCEPT ![c].state = "OPEN", ![c].opened = TRUE]
    /\ isConnected' = TRUE
    /\ reconnectAttemptsRef' = AttemptsAfterOpen(reconnectAttemptsRef)
    /\ activityLog' = AddLogEntry(activityLog,
            LogEntry(nextId, "message", <<"Connected to execution stream">>))
    /\ nextId' = nextId + 1
    /\ pollIntervalRef' = PollAfterOpen(pollIntervalRef)
    /\ pingIntervalRef' = c
    /\ UNCHANGED <<dashboard, tracker, stream, exhaustedIn, sessionId, attachment, view_data, isLoading, error, wsRef,
                   reconnectTimeoutRef, created, timeouts, inflight, sent,
                   events, fetches>>

\* messages still arrive on a socket that was open when close() was called
Receiving(s) == s.state = "OPEN" \/ (s.state = "CLOSING" /\ s.opened)

\* ws.onmessage: a frame that parses to type ping or pong is not passed on
IsControl(msg) == msg.parsed /\ msg.type \in {"pong", "ping"}

PongsAfter_Always(msg, s, n) == IF msg.type = "ping" THEN n + 1 ELSE n

\* ws.onmessage: a ping is answered with a pong if readyState is OPEN
PongsAfter(msg, s, n) ==
    IF msg.type = "ping" /\ s.state = "OPEN" THEN n + 1 ELSE n

\* ws.onmessage of socket c
WsMessage(c, msg, lim) ==
    /\ c \in DOMAIN sockets
    /\ Receiving(sockets[c])
    /\ events < lim.events
    /\ events' = events + 1
    /\ IF IsControl(msg)
       THEN /\ sent' = [sent EXCEPT !.pong = PongsAfter(msg, sockets[c], @)]
            /\ UNCHANGED <<view, nextId>>
       ELSE /\ HandleWebSocketMessage(msg)
            /\ UNCHANGED sent
    /\ UNCHANGED <<dashboard, tracker, stream, exhaustedIn, sessionId, attachment, refs, sockets, created, timeouts,
                   inflight, fetches>>

\* the close codes a close event without a preceding error can carry: what
\* the server answers after close() (1000, or 1005 for the status-less close
\* frame close() sends), and 1000 or 1001 when the server closes first
CloseCodes(s) ==
    CASE s.state = "CLOSING" /\ s.opened -> {1000, 1005}
      [] s.state = "OPEN" -> {1000, 1001}
      [] OTHER -> {}

PollAfterClose_Kept(poll, closure) == poll

\* ws.onclose: if (!pollIntervalRef.current) setInterval(fetchData, ...)
PollAfterClose(poll, closure) == IF poll = NoTimer THEN closure ELSE poll

BackoffDelay_Fixed(n) == WS_RECONNECT_DELAY

\* ws.onclose: delay = WS_RECONNECT_DELAY * reconnectAttemptsRef.current
BackoffDelay(n) == WS_RECONNECT_DELAY * n

Reconnects(code) ==
    code # CLOSE_NORMAL /\ reconnectAttemptsRef < WS_MAX_RECONNECT_ATTEMPTS

\* ws.onclose of socket c with the close code
OnClose(c, code) ==
    /\ sockets' = Remove(sockets, c)
    /\ isConnected' = FALSE
    /\ pingIntervalRef' = 0
    /\ pollIntervalRef' = PollAfterClose(pollIntervalRef,
                              [att |-> sockets[c].att, sid |-> sockets[c].sid])
    /\ exhaustedIn' =
          IF Reconnects(code) /\ reconnectAttemptsRef + 1 = WS_MAX_RECONNECT_ATTEMPTS
          THEN Cur ELSE exhaustedIn
    /\ IF Reconnects(code)
       THEN /\ reconnectAttemptsRef' = reconnectAttemptsRef + 1
            /\ timeouts' = Append(timeouts,
                  [id |-> c, att |-> sockets[c].att, sid |-> sockets[c].sid,
                   delay |-> BackoffDelay(reconnectAttemptsRef + 1)])
            /\ reconnectTimeoutRef' = c
       ELSE UNCHANGED <<reconnectAttemptsRef, timeouts, reconnectTimeoutRef>>
    /\ UNCHANGED <<dashboard, tracker, stream, sessionId, attachment, view_data, activityLog, isLoading,
                   error, wsRef, created, inflight, nextId, sent, events,
                   fetches>>

\* the close handshake of socket c ends, or the server closes it
WsClose(c, code) ==
    /\ c \in DOMAIN sockets
    /\ code \in CloseCodes(sockets[c])
    /\ OnClose(c, code)

\* the connection of socket c fails (any time before it is closed): the error
\* and the close event are fired by one task, ws.onerror then ws.onclose;
\* ws.onerror only sets isConnected to false, as ws.onclose does again
WsFail(c) ==
    /\ c \in DOMAIN sockets
    /\ sockets[c].state \in {"CONNECTING", "OPEN", "CLOSING"}
    /\ OnClose(c, 1006)

\* ------------------------------------------------------ timer callbacks
\* the i-th pending timeout is due: none armed before it has a delay as short
Due(i) == \A j \in 1..(i - 1) : timeouts[j].delay > timeouts[i].delay

Without(seq, i) == SubSeq(seq, 1, i - 1) \o SubSeq(seq, i + 1, Len(seq))

\* a reconnect timeout fires: connectWebSocket of the effect run that armed it
ReconnectFire(i, lim) ==
    /\ i \in DOMAIN timeouts
    /\ Due(i)
    /\ timeouts' = Without(timeouts, i)
    /\ ConnectWebSocket(timeouts[i].att, timeouts[i].sid, TRUE, sockets, wsRef, lim)
    /\ UNCHANGED <<dashboard, tracker, stream, exhaustedIn, sessionId, attachment, view, pollIntervalRef,
                   pingIntervalRef, reconnectAttemptsRef, reconnectTimeoutRef,
                   inflight, nextId, sent, events, fetches>>

\* the poll timer fires: fetchData of the effect run that armed it
PollFire ==
    /\ pollIntervalRef # NoTimer
    /\ fetches < MaxFetches
    /\ fetches' = fetches + 1
    /\ FetchDataStart(pollIntervalRef.sid)
    /\ UNCHANGED <<dashboard, tracker, stream, exhaustedIn, sessionId, attachment, view_data, activityLog, isConnected,
                   error, refs, sockets, created, timeouts, nextId, sent, events>>

\* refresh(): fetchData of the current render
Refresh ==
    /\ sessionId # NoSession
    /\ fetches < MaxFetches
    /\ fetches' = fetches + 1
    /\ FetchDataStart(sessionId)
    /\ UNCHANGED <<dashboard, tracker, stream, exhaustedIn, sessionId, attachment, view_data, activityLog, isConnected,
                   error, refs, sockets, created, timeouts, nextId, sent, events>>

\* the ping timer fires: a ping is sent if its socket is open
PingFire ==
    /\ pingIntervalRef # 0
    /\ pingIntervalRef \in DOMAIN sockets
    /\ sockets[pingIntervalRef].state = "OPEN"
    /\ sent.ping < MaxPings
    /\ sent' = [sent EXCEPT !.ping = @ + 1]
    /\ UNCHANGED <<dashboard, tracker, stream, exhaustedIn, sessionId, attachment, view, refs, sockets, created,
                   timeouts, inflight, nextId, events, fetches>>

\* ------------------------------------ the Execution Tracker's plan model
\* PlanTask: {id, description, assigned_agent, status, dependencies}
PlanTask(id, description, agent, st, deps) ==
    [id |-> id, description |-> description, assigned_agent |-> agent,
     status |-> st, dependencies |-> deps]

\* the phases in their order; error is entered from any of them
Phases ==
    <<"initializing", "planning", "researching", "reviewing", "coding", "editing",
      "finalizing", "completed">>
ErrorPhase == "error"
PhaseNo(phase) == CHOOSE i \in DOMAIN Phases : Phases[i] = phase

\* the session after start_session with a plan of three tasks, not yet approved
StartedSession ==
    [started |-> TRUE,
     phase |-> "initializing",
     progress |-> 0,
     error |-> NoError,
     messages |-> <<>>,
     plan |-> <<PlanTask(1, "find sources", "researcher", "pending", {}),
                PlanTask(2, "summarise", "researcher", "pending", {1}),
                PlanTask(3, "write report", "researcher", "pending", {})>>,
     approval |-> "pending",
     result |-> "none",
     last |-> "start_session",
     ops |-> 0]

TaskIdsOf(tasks) == {tasks[i].id : i \in DOMAIN tasks}

\* the ids a request can name: those a plan can hold, and one no plan holds
RequestIds == 1..(MaxTasks + 1)

\* an operation's outcome: the tracker record after it, with the signal
Signal(t, res) == [t EXCEPT !.result = res, !.ops = @ + 1]
Done(t, tasks) == [t EXCEPT !.plan = tasks, !.result = "ok", !.ops = @ + 1]

Locked_Never(t) == FALSE

\* once approved or rejected the plan is locked against structural edits
Locked(t) == t.approval # "pending"

\* TaskUpdate: each field optional (Absent when the request leaves it out)
Absent == [absent |-> TRUE]
Deps(ids) == [absent |-> FALSE, ids |-> ids]
TaskUpdate(description, agent, st, deps) ==
    [description |-> description, assigned_agent |-> agent, status |-> st,
     dependencies |-> deps]

TaskUpdates ==
    {TaskUpdate("rewritten", "-", "-", Absent),
     TaskUpdate("-", "coder", "-", Absent),
     TaskUpdate("-", "-", "completed", Absent),
     TaskUpdate("rewritten", "-", "completed", Absent)}
    \cup {TaskUpdate("-", "-", "-", Deps({i})) : i \in {1, MaxTasks + 1}}

\* an update that changes more than the task's status
Structural(u) ==
    u.description # "-" \/ u.assigned_agent # "-" \/ u.dependencies # Absent

Updated(task, u) ==
    [id |-> task.id,
     description |-> IF u.description # "-" THEN u.description ELSE task.description,
     assigned_agent |->
        IF u.assigned_agent # "-" THEN u.assigned_agent ELSE task.assigned_agent,
     status |-> IF u.status # "-" THEN u.status ELSE task.status,
     dependencies |->
        IF u.dependencies # Absent THEN u.dependencies.ids ELSE task.dependencies]

\* update_task: the task id exists, the dependency ids name existing tasks
update_task(t, id, u) ==
    IF id \notin TaskIdsOf(t.plan) THEN Signal(t, "ValidationError")
    ELSE IF u.dependencies # Absent /\ ~(u.dependencies.ids \subseteq TaskIdsOf(t.plan))
    THEN Signal(t, "ValidationError")
    ELSE IF Locked(t) /\ Structural(u) THEN Signal(t, "PlanLocked")
    ELSE Done(t, [i \in DOMAIN t.plan |->
                    IF t.plan[i].id = id THEN Updated(t.plan[i], u) ELSE t.plan[i]])

\* the id of a new task: stable ids, unique within the plan
FreshId(tasks) ==
    IF tasks = <<>> THEN 1
    ELSE (CHOOSE m \in TaskIdsOf(tasks) : \A i \in TaskIdsOf(tasks) : i <= m) + 1

InsertAt(tasks, position, task) ==
    SubSeq(tasks, 1, position) \o <<task>> \o SubSeq(tasks, position + 1, Len(tasks))

\* add_task: the dependency ids name existing tasks; position counts from 0
add_task_AnyDeps(t, description, deps, position) ==
    IF Locked(t) THEN Signal(t, "PlanLocked")
    ELSE Done(t, InsertAt(t.plan, position,
                    PlanTask(FreshId(t.plan), description, "researcher", "pending", deps)))

add_task(t, description, deps, position) ==
    IF ~(deps \subseteq TaskIdsOf(t.plan)) THEN Signal(t, "ValidationError")
    ELSE IF Locked(t) THEN Signal(t, "PlanLocked")
    ELSE Done(t, InsertAt(t.plan, position,
                    PlanTask(FreshId(t.plan), description, "researcher", "pending", deps)))

\* remove_task: the task id exists; the other tasks no longer depend on it
remove_task(t, id) ==
    IF id \notin TaskIdsOf(t.plan) THEN Signal(t, "ValidationError")
    ELSE IF Locked(t) THEN Signal(t, "PlanLocked")
    ELSE Done(t, [i \in 1..(Len(t.plan) - 1) |->
                    LET kept == SelectSeq(t.plan, LAMBDA x : x.id # id)[i]
                    IN  [kept EXCEPT !.dependencies = @ \ {id}]])

\* reorder_tasks: the order is a permutation of the plan's task ids
IsPermutation(order, tasks) ==
    /\ Len(order) = Len(tasks)
    /\ {order[i] : i \in DOMAIN order} = TaskIdsOf(tasks)

TaskOf(tasks, id) == tasks[CHOOSE i \in DOMAIN tasks : tasks[i].id = id]

reorder_tasks_Unchecked(t, order) ==
    IF Locked(t) THEN Signal(t, "PlanLocked")
    ELSE Done(t, [i \in DOMAIN order |->
                    IF order[i] \in TaskIdsOf(t.plan)
                    THEN TaskOf(t.plan, order[i]) ELSE t.plan[1]])

reorder_tasks(t, order) ==
    IF ~IsPermutation(order, t.plan) THEN Signal(t, "ValidationError")
    ELSE IF Locked(t) THEN Signal(t, "PlanLocked")
    ELSE Done(t, [i \in DOMAIN order |-> TaskOf(t.plan, order[i])])

\* PlanApprovalRequest.modifications: none, or a task list to merge in
NoModifications == [absent |-> TRUE]
Modifications ==
    {NoModifications,
     [absent |-> FALSE, tasks |-> <<StartedSession.plan[1]>>],
     [absent |-> FALSE, tasks |-> Tail(StartedSession.plan)]}

approve_plan_Repeatable(t, approved, modifications) ==
    IF ~t.started THEN Signal(t, "SessionNotFound")
    ELSE [t EXCEPT !.plan = IF approved /\ modifications # NoModifications
                            THEN modifications.tasks ELSE @,
                   !.approval = IF approved THEN "approved" ELSE "rejected",
                   !.error = IF approved THEN @ ELSE "PlanRejected",
                   !.result = "ok", !.ops = @ + 1]

\* approve_plan: only while the approval status is pending
approve_plan(t, approved, modifications) ==
    IF ~t.started THEN Signal(t, "SessionNotFound")
    ELSE IF t.approval # "pending" THEN Signal(t, "ApprovalConflict")
    ELSE [t EXCEPT !.plan = IF approved /\ modifications # NoModifications
                            THEN modifications.tasks ELSE @,
                   !.approval = IF approved THEN "approved" ELSE "rejected",
                   !.error = IF approved THEN @ ELSE "PlanRejected",
                   !.result = "ok", !.ops = @ + 1]

\* ------------------------------ the Execution Tracker's session operations
\* no status: the session id is unknown to the tracker
NoStatus ==
    [StartedSession EXCEPT !.started = FALSE, !.phase = "none", !.plan = <<>>,
                           !.last = "none"]

start_session_Again(t, tasks) == [StartedSession EXCEPT !.plan = tasks, !.ops = t.ops]

\* start_session: phase initializing, progress 0; a no-op that returns the
\* existing status if the session is already started
start_session(t, tasks) ==
    IF t.started THEN t
    ELSE [StartedSession EXCEPT !.plan = tasks, !.ops = t.ops]

\* update_phase: records the phase it is told and appends a phase log entry
update_phase(t, phase) ==
    IF ~t.started THEN Signal(t, "SessionNotFound")
    ELSE [t EXCEPT !.phase = phase, !.messages = Append(@, phase),
                   !.result = "ok", !.ops = @ + 1]

\* update_progress: overwrites progress (percent)
update_progress(t, p) ==
    IF ~t.started THEN Signal(t, "SessionNotFound")
    ELSE [t EXCEPT !.progress = p, !.result = "ok", !.ops = @ + 1]

\* ------------------------------------------------ the workflow engine
Blocked_Never(t) == FALSE

\* the workflow blocks at the end of planning until approve_plan resolves the
\* pending plan; a rejected plan aborts it
Blocked(t) ==
    \/ t.phase = "planning" /\ t.approval = "pending"
    \/ t.approval = "rejected"

\* the workflow moves the session to the next phase (ops counts the calls of
\* the tracker's other callers)
advance(t) == [update_phase(t, Phases[PhaseNo(t.phase) + 1]) EXCEPT !.ops = t.ops]

\* the workflow gives up: phase error and a populated error field
fail(t) == [update_phase(t, ErrorPhase) EXCEPT !.error = "WorkflowError", !.ops = t.ops]

\* ------------------------------------------------------------ the hook
InitHook ==
    /\ sessionId = NoSession
    /\ attachment = 0
    /\ status = Null
    /\ progress = Null
    /\ agents = <<>>
    /\ plan = Null
    /\ activityLog = <<>>
    /\ isConnected = FALSE
    /\ isLoading = FALSE
    /\ error = NoError
    /\ wsRef = 0
    /\ pollIntervalRef = NoTimer
    /\ pingIntervalRef = 0
    /\ reconnectAttemptsRef = 0
    /\ reconnectTimeoutRef = 0
    /\ sockets = <<>>
    /\ created = 0
    /\ timeouts = <<>>
    /\ inflight = [s \in Sessions |-> 0]
    /\ nextId = 1
    /\ sent = [ping |-> 0, pong |-> 0]
    /\ events = 0
    /\ fetches = 0
    /\ exhaustedIn = 0
    /\ showApprovalModal = FALSE
    /\ editedPlan = <<>>
    /\ localPlan = <<>>
    /\ approvals = 0
    /\ edits = 0

Init == InitHook /\ stream = <<>> /\ tracker = StartedSession

\* the frames a socket of session sid receives
Frames(sid) == CatalogEnvelopes(sid) \cup ControlFrames(sid) \cup {Unparseable}

\* one logging envelope, one patching envelope, one control frame
FewFrames(sid) ==
    {WebSocketEvent("tool.invoked", sid, [tool |-> "search"]),
     WebSocketEvent("agent.progress", sid, [agent |-> "researcher", progress |-> 50]),
     WebSocketEvent("ping", sid, Null)}

\* ---------------------------------- the transport: effect runs and sockets
Limits == [channels |-> MaxChannels, attachments |-> MaxAttachments, events |-> 0]

AttachAny == \E s \in Sessions : Attach(s, Limits)
SwitchAny == \E s \in Sessions : Switch(s, Limits)
Open == \E c \in DOMAIN sockets : WsOpen(c)
Close == \E c \in DOMAIN sockets : \E code \in CloseCodes(sockets[c]) : WsClose(c, code)
Fail == \E c \in DOMAIN sockets : WsFail(c)
Reconnect == \E i \in DOMAIN timeouts : ReconnectFire(i, Limits)

Next ==
    \/ AttachAny
    \/ SwitchAny
    \/ Detach
    \/ Open
    \/ Close
    \/ Fail
    \/ Reconnect

Spec == Init /\ [][Next]_vars

\* ------------------------- the transport up to the end of the reconnect budget
BackoffLimits ==
    [channels |-> MaxChannelsBackoff, attachments |-> MaxAttachments, events |-> 0]

AttachBackoff == \E s \in Sessions : Attach(s, BackoffLimits)
SwitchBackoff == \E s \in Sessions : Switch(s, BackoffLimits)
ReconnectBackoff == \E i \in DOMAIN timeouts : ReconnectFire(i, BackoffLimits)

NextBackoff ==
    \/ AttachBackoff
    \/ SwitchBackoff
    \/ Detach
    \/ Open
    \/ Close
    \/ Fail
    \/ ReconnectBackoff

SpecBackoff == Init /\ [][NextBackoff]_vars

\* ------------------- one attachment: frames, polls and reconnects interleaved
StreamLimits ==
    [channels |-> MaxChannelsStream, attachments |-> 1, events |-> MaxEvents]

AttachStream == \E s \in Sessions : Attach(s, StreamLimits)
ReconnectStream == \E i \in DOMAIN timeouts : ReconnectFire(i, StreamLimits)
Message ==
    \E c \in DOMAIN sockets :
        \E m \in FewFrames(sockets[c].sid) : WsMessage(c, m, StreamLimits)
Fetched == \E sid \in Sessions : \E r \in CoarseOutcomes(sid) : FetchComplete(sid, r)

NextStream ==
    \/ AttachStream
    \/ Detach
    \/ Open
    \/ Message
    \/ Close
    \/ Fail
    \/ ReconnectStream
    \/ PollFire
    \/ Refresh
    \/ PingFire
    \/ Fetched

SpecStream == Init /\ [][NextStream]_vars

\* ------------- one open channel on which the gateway sends a long stream
\* the stream repeats a pair of envelopes of the catalog
Streams(sid) == CatalogEnvelopes(sid) \X CatalogEnvelopes(sid)

\* the i-th frame of the stream
Frame(i) == stream[((i - 1) % Len(stream)) + 1]

LogLimits ==
    [channels |-> 1, attachments |-> 1,
     events |-> 2 * (LOG_KEEP + 1) + MaxExtra]

InitLog == InitHook /\ stream \in Streams("s1") /\ tracker = StartedSession

AttachLog == Attach("s1", LogLimits)
Streamed == \E c \in DOMAIN sockets : WsMessage(c, Frame(events + 1), LogLimits)

NextLog ==
    \/ AttachLog
    \/ Open
    \/ Streamed

SpecLog == InitLog /\ [][NextLog]_vars

\* --------------------- one attachment: the whole chain of reconnections
ChainLimits == [channels |-> MaxChannelsBackoff, attachments |-> 1, events |-> 0]

AttachChain == \E s \in Sessions : Attach(s, ChainLimits)
ReconnectChain == \E i \in DOMAIN timeouts : ReconnectFire(i, ChainLimits)

NextChain ==
    \/ AttachChain
    \/ Detach
    \/ Open
    \/ Close
    \/ Fail
    \/ ReconnectChain

SpecChain == Init /\ [][NextChain]_vars

\* ------------- one channel: every kind of frame applied to a fetched view
ApplyLimits == [channels |-> 1, attachments |-> 1, events |-> MaxApplied]

\* the frames ws.onmessage is given: well-formed, control, lacking, unparseable
ApplyFrames(sid) == Frames(sid) \cup LackingEnvelopes(sid)

AttachApply == Attach("s1", ApplyLimits)
Delivered ==
    \E c \in DOMAIN sockets :
        \E m \in ApplyFrames(sockets[c].sid) : WsMessage(c, m, ApplyLimits)

NextApply ==
    \/ AttachApply
    \/ Detach
    \/ Open
    \/ Delivered
    \/ Fetched

SpecApply == Init /\ [][NextApply]_vars

\* ------------------------------- the tracker under plan edits and approvals
\* the tracker record after the operation op, whose outcome is t
Called(op, t) == [t EXCEPT !.last = op]

PermutationsOf(tasks) ==
    {f \in [DOMAIN tasks -> TaskIdsOf(tasks)] :
        {f[i] : i \in DOMAIN tasks} = TaskIdsOf(tasks)}

\* the orders a reorder request can carry: the permutations of the plan's
\* ids, and the current order with an id missing, with an id the plan lacks,
\* with an id repeated
Orders(tasks) ==
    LET cur == [i \in DOMAIN tasks |-> tasks[i].id]
    IN  PermutationsOf(tasks)
        \cup {SubSeq(cur, 1, Len(cur) - 1), Append(cur, MaxTasks + 1),
              [cur EXCEPT ![1] = cur[Len(cur)]]}

UpdateTask ==
    /\ tracker.ops < MaxOps
    /\ \E id \in RequestIds : \E u \in TaskUpdates :
          tracker' = Called("update_task", update_task(tracker, id, u))
    /\ UNCHANGED <<hook, dashboard>>

AddTask ==
    /\ tracker.ops < MaxOps
    /\ Len(tracker.plan) < MaxTasks
    /\ \E deps \in {{}, {1}, {MaxTasks + 1}} : \E position \in {0, Len(tracker.plan)} :
          tracker' = Called("add_task", add_task(tracker, "new task", deps, position))
    /\ UNCHANGED <<hook, dashboard>>

RemoveTask ==
    /\ tracker.ops < MaxOps
    /\ \E id \in RequestIds : tracker' = Called("remove_task", remove_task(tracker, id))
    /\ UNCHANGED <<hook, dashboard>>

ReorderTasks ==
    /\ tracker.ops < MaxOps
    /\ tracker.plan # <<>>
    /\ \E order \in Orders(tracker.plan) :
          tracker' = Called("reorder_tasks", reorder_tasks(tracker, order))
    /\ UNCHANGED <<hook, dashboard>>

ApprovePlan ==
    /\ tracker.ops < MaxOps
    /\ \E approved \in BOOLEAN : \E m \in Modifications :
          tracker' = Called("approve_plan", approve_plan(tracker, approved, m))
    /\ UNCHANGED <<hook, dashboard>>

NextPlan ==
    \/ UpdateTask
    \/ AddTask
    \/ RemoveTask
    \/ ReorderTasks
    \/ ApprovePlan

SpecPlan == Init /\ [][NextPlan]_vars

\* ------------------------------------- the tracker under calls of its API
\* progress values (percent) a caller reports; they need not increase
Progresses == {0, 20, 50}

InitTracker == InitHook /\ stream = <<>> /\ tracker = NoStatus

StartSession ==
    /\ \E tasks \in {<<>>, StartedSession.plan} :
          tracker' = Called("start_session", start_session(tracker, tasks))
    /\ UNCHANGED <<hook, dashboard>>

UpdatePhase ==
    /\ tracker.ops < MaxOps
    /\ \E i \in DOMAIN Phases : \E phase \in {Phases[i], ErrorPhase} :
          tracker' = Called("update_phase", update_phase(tracker, phase))
    /\ UNCHANGED <<hook, dashboard>>

UpdateProgress ==
    /\ tracker.ops < MaxOps
    /\ \E p \in Progresses :
          tracker' = Called("update_progress", update_progress(tracker, p))
    /\ UNCHANGED <<hook, dashboard>>

NextTracker ==
    \/ StartSession
    \/ UpdatePhase
    \/ UpdateProgress
    \/ ApprovePlan

SpecTracker == InitTracker /\ [][NextTracker]_vars

\* ------------------- the workflow drives the session, the user edits the plan
WorkflowAdvance ==
    /\ tracker.phase \notin {Phases[Len(Phases)], ErrorPhase}
    /\ ~Blocked(tracker)
    /\ tracker' = Called("update_phase", advance(tracker))
    /\ UNCHANGED <<hook, dashboard>>

WorkflowFail ==
    /\ tracker.phase \notin {Phases[Len(Phases)], ErrorPhase}
    /\ tracker.approval # "rejected"
    /\ tracker' = Called("update_phase", fail(tracker))
    /\ UNCHANGED <<hook, dashboard>>

NextWorkflow ==
    \/ WorkflowAdvance
    \/ WorkflowFail
    \/ ApprovePlan
    \/ UpdateTask
    \/ RemoveTask

SpecWorkflow == Init /\ [][NextWorkflow]_vars

\* --------------------------------- the dashboard, its modal and its editor
\* plan_waiting_approval: the plan awaits the user's decision
WaitingApproval(t) == t.started /\ t.plan # <<>> /\ t.approval = "pending"

\* the status and the plan as the hook hands them to the dashboard
ClientStatus(t) ==
    [session_id |-> "s1", current_phase |-> t.phase, active_agent |-> "none",
     progress |-> t.progress, plan_approval_status |-> t.approval,
     plan_waiting_approval |-> WaitingApproval(t)]
ClientPlan(t) == [main_goal |-> "s1", tasks |-> t.plan]

\* the plan prop of the modal: the dashboard's localPlan, set from the first
\* plan the hook returned
DisplayPlan == StartedSession.plan

\* the auto-show effect, run after the render that follows a state change
AutoShow(st, pl, shown) ==
    IF st # Null /\ st.plan_waiting_approval /\ pl # Null /\ ~shown THEN TRUE ELSE shown

\* the state of the tracker after a request that reached it, or did not
Served(reached, op, outcome) == IF reached THEN Called(op, outcome) ELSE tracker

\* the response is OK
Succeeded(reached) == reached /\ tracker'.result = "ok"

hookRest ==
    <<sessionId, attachment, progress, agents, activityLog, isConnected, isLoading,
      error, refs, env, stream, exhaustedIn>>

\* the hook returns the tracker's status and plan (a poll or a status.update)
StatusDelivered ==
    /\ status' = ClientStatus(tracker)
    /\ plan' = ClientPlan(tracker)
    /\ showApprovalModal' = AutoShow(status', plan', showApprovalModal)
    /\ editedPlan' = IF plan = Null THEN tracker.plan ELSE editedPlan
    /\ localPlan' = IF showApprovalModal THEN localPlan ELSE editedPlan'
    /\ UNCHANGED <<hookRest, tracker, approvals, edits>>

\* the modal closes in one render (its PlanEditor unmounts) and the effect runs
\* on the next; a PlanEditor mounts with useState(plan), plan being editedPlan
Closed ==
    /\ showApprovalModal' = AutoShow(status, plan, FALSE)
    /\ localPlan' = editedPlan

\* PlanApprovalModal.handleApprove / handleReject
Decide(approved, reached) ==
    /\ showApprovalModal
    /\ approvals < MaxApprovals
    /\ approvals' = approvals + 1
    /\ tracker' = Served(reached, "approve_plan",
                     approve_plan(tracker, approved,
                        IF approved /\ editedPlan # DisplayPlan
                        THEN [absent |-> FALSE, tasks |-> editedPlan]
                        ELSE NoModifications))
    /\ IF Succeeded(reached) THEN Closed ELSE UNCHANGED <<showApprovalModal, localPlan>>
    /\ UNCHANGED <<hook, editedPlan, edits>>

ModalApprove == \E reached \in BOOLEAN : Decide(TRUE, reached)
ModalReject == \E reached \in BOOLEAN : Decide(FALSE, reached)

\* onClose: a click on the backdrop
ModalClose ==
    /\ showApprovalModal
    /\ Closed
    /\ UNCHANGED <<hook, tracker, editedPlan, approvals, edits>>

\* a request of the editor is on its way
Editing ==
    /\ showApprovalModal
    /\ edits < MaxEdits
    /\ edits' = edits + 1
    /\ UNCHANGED <<hook, showApprovalModal, approvals>>

\* tasks.splice(fromIndex, 1); tasks.splice(toIndex, 0, movedTask)
Moved(tasks, from, to) == InsertAt(Without(tasks, from), to - 1, tasks[from])

\* PlanEditor.handleMoveTask (indices from 1)
MoveTask(from, to, reached) ==
    /\ Editing
    /\ from \in DOMAIN localPlan /\ to \in DOMAIN localPlan
    /\ localPlan[from].status = "pending"
    /\ localPlan' = Moved(localPlan, from, to)
    /\ tracker' = Served(reached, "reorder_tasks",
                     reorder_tasks(tracker, [i \in DOMAIN localPlan |-> localPlan'[i].id]))
    /\ editedPlan' = IF Succeeded(reached) THEN tracker'.plan ELSE editedPlan

\* EditableTask.handleSave with a new description, PlanEditor.handleTaskUpdated
SaveTask(i, reached) ==
    /\ Editing
    /\ i \in DOMAIN localPlan
    /\ localPlan[i].status = "pending"
    /\ localPlan[i].description # "rewritten"
    /\ tracker' = Served(reached, "update_task",
                     update_task(tracker, localPlan[i].id,
                                 TaskUpdate("rewritten", "-", "-", Absent)))
    /\ localPlan' =
          IF Succeeded(reached)
          THEN [localPlan EXCEPT ![i] = TaskOf(tracker'.plan, localPlan[i].id)]
          ELSE localPlan
    /\ editedPlan' = IF Succeeded(reached) THEN localPlan' ELSE editedPlan

\* EditableTask.handleRemove, PlanEditor.handleTaskRemoved
RemoveClicked(i, reached) ==
    /\ Editing
    /\ i \in DOMAIN localPlan
    /\ localPlan[i].status = "pending"
    /\ tracker' = Served(reached, "remove_task", remove_task(tracker, localPlan[i].id))
    /\ localPlan' =
          IF Succeeded(reached)
          THEN SelectSeq(localPlan, LAMBDA x : x.id # localPlan[i].id)
          ELSE localPlan
    /\ editedPlan' = IF Succeeded(reached) THEN localPlan' ELSE editedPlan

\* AddTaskForm.handleAdd, PlanEditor.handleTaskAdded
AddClicked(reached) ==
    /\ Editing
    /\ Len(tracker.plan) < MaxTasks
    /\ tracker' = Served(reached, "add_task",
                     add_task(tracker, "new task", {}, Len(tracker.plan)))
    /\ localPlan' =
          IF Succeeded(reached)
          THEN Append(localPlan, tracker'.plan[Len(tracker'.plan)])
          ELSE localPlan
    /\ editedPlan' = IF Succeeded(reached) THEN localPlan' ELSE editedPlan

\* -------------------- the user reviews, edits and decides the plan in the modal
MoveUpOrDown ==
    \E from \in DOMAIN localPlan : \E to \in {from - 1, from + 1} :
        \E reached \in BOOLEAN : MoveTask(from, to, reached)
Save == \E i \in DOMAIN localPlan : \E reached \in BOOLEAN : SaveTask(i, reached)
RemoveOne == \E i \in DOMAIN localPlan : \E reached \in BOOLEAN : RemoveClicked(i, reached)
Add == \E reached \in BOOLEAN : AddClicked(reached)

NextDashboard ==
    \/ StatusDelivered
    \/ ModalApprove
    \/ ModalReject
    \/ ModalClose
    \/ MoveUpOrDown
    \/ Save
    \/ RemoveOne
    \/ Add

SpecDashboard == Init /\ [][NextDashboard]_vars

\* ====================================================== the properties
\* steps, told by what they change
Detaching == sessionId # NoSession /\ sessionId' = NoSession
Opening(c) ==
    /\ c \in DOMAIN sockets /\ sockets[c].state = "CONNECTING"
    /\ c \in DOMAIN sockets' /\ sockets'[c].state = "OPEN"
Closing(c) == c \in DOMAIN sockets /\ c \notin DOMAIN sockets'
Fetching == fetches' # fetches \/ inflight' # inflight
Pending == {timeouts[i] : i \in DOMAIN timeouts}

\* newest first: the ids (the moments of the entries) decrease along the log
NewestFirst(log) ==
    \A i, j \in 1..Len(log) : i < j => log[i].id > log[j].id

\* C1: once an effect run has been cleaned up (its socket closed by the
\* cleanup), no reconnect timeout of that run is armed and no WebSocket is
\* constructed for it, whatever close events arrive later.
NoReconnectAfterDetach ==
    /\ \A t \in Pending : t.att = Cur
    /\ \A c \in DOMAIN sockets : ~sockets[c].late

\* C2: no poll timer, ping timer or reconnect timeout of an effect run that
\* has been cleaned up is active.
DetachCancelsTimers ==
    /\ pollIntervalRef # NoTimer => pollIntervalRef.att = Cur
    /\ pingIntervalRef # 0 =>
          /\ pingIntervalRef \in DOMAIN sockets
          /\ sockets[pingIntervalRef].att = Cur
    /\ \A t \in Pending : t.att = Cur

\* C3: every step in which a socket opens leaves the reconnect-attempt
\* counter at 0.
OpenResetsAttempts ==
    [][(\E c \in DOMAIN sockets : Opening(c)) => reconnectAttemptsRef' = 0]_vars

\* a reconnection has opened and the counter is 0
OpenedAfterReconnect ==
    /\ reconnectAttemptsRef = 0
    /\ \E c \in DOMAIN sockets : sockets[c].state = "OPEN" /\ sockets[c].reconn

\* the frames applied so far that add a log entry, as [type, content], oldest first
Strip(e) == [type |-> e.type, content |-> e.content]

RECURSIVE LoggedBetween(_, _)
LoggedBetween(a, b) ==
    IF a > b THEN <<>>
    ELSE IF a = b
         THEN IF Logs(Frame(a)) THEN <<Strip(LoggedEntry(Frame(a), 0))>> ELSE <<>>
         ELSE LoggedBetween(a, (a + b) \div 2) \o LoggedBetween(((a + b) \div 2) + 1, b)

LoggedUpTo(n) == LoggedBetween(1, n)

LogBoundedPrepend ==
    [][/\ Len(activityLog') <= LOG_KEEP + 1
       /\ nextId' # nextId =>
             /\ activityLog'[1].id = nextId
             /\ Len(activityLog') = Min(Len(activityLog) + 1, LOG_KEEP + 1)
             /\ \A i \in 2..Len(activityLog') : activityLog'[i] = activityLog[i - 1]]_vars

\* the log is full and its oldest entries have been dropped
LogFullAndRolled ==
    /\ Len(activityLog) = LOG_KEEP + 1
    /\ activityLog[LOG_KEEP + 1].id > 1

\* C6: when the close handler of a socket has run while a session is attached
\* (after an unclean close in particular), the poll timer is running.
CloseRestartsPolling ==
    [][(sessionId # NoSession /\ sessionId' = sessionId
            /\ \E c \in DOMAIN sockets : Closing(c))
        => pollIntervalRef' # NoTimer]_vars

\* the first effect run: its socket opened (polling stopped), then closed
\* uncleanly, and the poll timer runs again
PollingAfterUncleanClose ==
    /\ attachment = 1
    /\ sessionId # NoSession
    /\ activityLog # <<>>
    /\ DOMAIN sockets = {}
    /\ timeouts # <<>>
    /\ pollIntervalRef # NoTimer

\* C7: once the counter has reached the maximum during the current effect
\* run, no step of that run constructs or opens a WebSocket, and the poll
\* timer keeps running.
PollingOnlyAfterExhaustion ==
    [][(Cur # 0 /\ exhaustedIn = Cur /\ Cur' = Cur)
        => /\ created' = created
           /\ ~ \E c \in DOMAIN sockets : Opening(c)
           /\ pollIntervalRef' # NoTimer]_vars

\* C8: every effect run with a session id constructs a WebSocket.
AttachOpensChannel ==
    [][attachment' = attachment + 1 => created' = created + 1]_vars

\* C9: while a socket is open the poll timer is stopped.
PollStoppedWhileOpen ==
    \A c \in DOMAIN sockets : sockets[c].state = "OPEN" => pollIntervalRef = NoTimer

\* C10: a tool.invoked envelope puts its entry first and keeps every earlier
\* entry behind it; the close handler, the poll timer and a completed fetch
\* leave the log as it is; and no step but a detach removes or reorders
\* entries (the 100th falls off when one is added to a full log).
ToolInvoked(sid) == WebSocketEvent("tool.invoked", sid, [tool |-> "search"])

LogSurvivesTransportSwitch ==
    [][/\ ((\E c \in DOMAIN sockets : Closing(c)) \/ Fetching)
            => activityLog' = activityLog
       /\ (\E c \in DOMAIN sockets :
                WsMessage(c, ToolInvoked(sockets[c].sid), StreamLimits))
            => /\ activityLog' # <<>>
               /\ Strip(activityLog'[1]) =
                     [type |-> "tool", content |-> <<"Tool", "search", "invoked">>]
               /\ Tail(activityLog') = Prefix(activityLog, LOG_KEEP)
       /\ ~Detaching
            => /\ \/ activityLog' = activityLog
                  \/ /\ activityLog' # <<>>
                     /\ Tail(activityLog') = Prefix(activityLog, LOG_KEEP)
               /\ NewestFirst(activityLog')]_vars

\* two tool entries, newest first, under the entry of a reconnection, after
\* the poll's fetch has completed
ToolEntriesSurvived ==
    /\ Len(activityLog) >= 4
    /\ activityLog[1].content = <<"Connected to execution stream">>
    /\ activityLog[2].type = "tool"
    /\ activityLog[3].type = "tool"
    /\ activityLog[2].id > activityLog[3].id
    /\ fetches = MaxFetches
    /\ \A s \in Sessions : inflight[s] = 0

\* C11, as claimed: when a fetch completes, status, progress, agents and plan
\* are exactly the four results of that fetch (null for a request that failed
\* or found nothing), whatever they were before.
PollReplacesView ==
    [][\A sid \in Sessions : \A r \in CoarseOutcomes(sid) :
          FetchComplete(sid, r) => view_data' = <<r[1], r[2], r[3], r[4]>>]_vars

\* a frame is delivered to the handler of an open socket
DeliveredOpen(c, m) ==
    /\ c \in DOMAIN sockets /\ sockets[c].state = "OPEN"
    /\ WsMessage(c, m, ApplyLimits)

\* C12: a phase.changed envelope applied on an open channel, with a status
\* present, leaves status.current_phase at the envelope's phase and adds
\* exactly one log entry, of type phase.
PhaseChangedSetsPhase ==
    [][\A c \in DOMAIN sockets :
          \A m \in {WebSocketEvent("phase.changed", sockets[c].sid, d) :
                        d \in Payloads("phase.changed", sockets[c].sid)} :
             (DeliveredOpen(c, m) /\ status # Null)
                => /\ status' # Null
                   /\ status'.current_phase = m.data.phase
                   /\ Len(activityLog') = Len(activityLog) + 1
                   /\ activityLog'[1].type = "phase"
                   /\ Tail(activityLog') = activityLog]_vars

\* C13: a ping or pong frame received on a socket leaves status, progress,
\* agents, plan, the activity log and error as they were; a ping is answered
\* with exactly one pong when the socket is open, and with none otherwise; a
\* pong is never answered.
ControlFramesConsumed ==
    [][\A c \in DOMAIN sockets : \A m \in ControlFrames(sockets[c].sid) :
          WsMessage(c, m, ApplyLimits)
             => /\ view_data' = view_data
                /\ activityLog' = activityLog
                /\ error' = error
                /\ nextId' = nextId
                /\ sent'.ping = sent.ping
                /\ sent'.pong =
                      IF m.type = "ping" /\ sockets[c].state = "OPEN"
                      THEN sent.pong + 1 ELSE sent.pong]_vars

\* a ping was answered on the open socket, and a later ping, received while
\* the socket was closing, was not
PingAnsweredOnlyWhileOpen ==
    /\ events = 2
    /\ sent.pong = 1
    /\ \E c \in DOMAIN sockets : sockets[c].state = "CLOSING" /\ sockets[c].opened
    /\ activityLog = <<>>

\* C14: a frame that does not parse, or an envelope that lacks the field its
\* type needs, changes neither status, plan, the activity log nor error, and
\* leaves the socket as it was, able to deliver later frames.
MalformedDropped ==
    [][\A c \in DOMAIN sockets :
          \A m \in {Unparseable} \cup LackingEnvelopes(sockets[c].sid) :
             WsMessage(c, m, ApplyLimits)
                => /\ status' = status
                   /\ plan' = plan
                   /\ activityLog' = activityLog
                   /\ error' = error
                   /\ sockets' = sockets]_vars

\* the log entries made from envelope m
EntriesOf(m) ==
    {k \in 1..Len(activityLog) : Strip(activityLog[k]) = Strip(LoggedEntry(m, 0))}

\* C15: an envelope the server's stream delivers more than once (the stream
\* of SpecLog repeats its two envelopes) has at most one entry in the log.
DeliveredTwiceLoggedOnce ==
    \A i \in 1..Len(stream) :
        (Logs(stream[i]) /\ stream[1] # stream[2]) => Cardinality(EntriesOf(stream[i])) <= 1

\* a step in which ws.onclose arms a reconnect timeout
Arming == Len(timeouts') = Len(timeouts) + 1

Order(tasks) == [i \in DOMAIN tasks |-> tasks[i].id]

\* the step is the reorder_tasks call with this order
Reordering(order) ==
    tracker' = Called("reorder_tasks", reorder_tasks(tracker, order))

\* C17, as claimed: reorder_tasks with a permutation of the plan's ids
\* succeeds, puts the tasks in the requested order and keeps the set of ids;
\* with any other list it fails and leaves the plan as it was.
ReorderPermutationOrNothing ==
    [][tracker'.last = "reorder_tasks" =>
       \A order \in Orders(tracker.plan) :
          Reordering(order) =>
             IF IsPermutation(order, tracker.plan)
             THEN /\ tracker'.result = "ok"
                  /\ Order(tracker'.plan) = order
                  /\ TaskIdsOf(tracker'.plan) = TaskIdsOf(tracker.plan)
             ELSE /\ tracker'.result = "ValidationError"
                  /\ tracker'.plan = tracker.plan]_vars

\* C17, amended: while the approval status is pending, reorder_tasks with a
\* permutation of the plan's ids succeeds, puts the same tasks in the
\* requested order and keeps the set of ids; with any other list it fails, in
\* every approval status, and leaves the plan and the approval status as
\* they were.
ReorderPermutationWhilePending ==
    [][tracker'.last = "reorder_tasks" =>
       \A order \in Orders(tracker.plan) :
          Reordering(order) =>
             /\ (IsPermutation(order, tracker.plan) /\ tracker.approval = "pending")
                   => /\ tracker'.result = "ok"
                      /\ Order(tracker'.plan) = order
                      /\ TaskIdsOf(tracker'.plan) = TaskIdsOf(tracker.plan)
                      /\ \A i \in DOMAIN order :
                            tracker'.plan[i] = TaskOf(tracker.plan, order[i])
             /\ ~IsPermutation(order, tracker.plan)
                   => /\ tracker'.result = "ValidationError"
                      /\ tracker'.plan = tracker.plan
                      /\ tracker'.approval = tracker.approval]_vars

\* the plan with ids 1, 2, 3 was reordered to 2, 1, 3
ReorderedTwoOneThree ==
    /\ tracker.last = "reorder_tasks"
    /\ tracker.result = "ok"
    /\ Order(tracker.plan) = <<2, 1, 3>>
    /\ tracker.ops = 1

\* C18: an approve_plan call made while the approval status is pending moves
\* it to approved or to rejected; a call made later signals ApprovalConflict
\* and leaves the approval status and the plan as they were; and no step
\* changes an approval status that is no longer pending.
ApprovalOnlyWhilePending ==
    [][/\ tracker'.last = "approve_plan" =>
             IF tracker.approval = "pending"
             THEN /\ tracker'.approval \in {"approved", "rejected"}
                  /\ tracker'.result = "ok"
             ELSE /\ tracker'.result = "ApprovalConflict"
                  /\ tracker'.approval = tracker.approval
                  /\ tracker'.plan = tracker.plan
       /\ tracker.approval # "pending" => tracker'.approval = tracker.approval]_vars

\* a second approve_plan call was refused
SecondApprovalRefused ==
    /\ tracker.last = "approve_plan"
    /\ tracker.result = "ApprovalConflict"
    /\ tracker.approval \in {"approved", "rejected"}

\* the step signalled ValidationError and kept the plan and the approval status
RefusedAsInvalid ==
    /\ tracker'.result = "ValidationError"
    /\ tracker'.plan = tracker.plan
    /\ tracker'.approval = tracker.approval

UnknownDeps(deps) == ~(deps \subseteq TaskIdsOf(tracker.plan))

SameButStatus(before, after) ==
    /\ Len(after) = Len(before)
    /\ \A i \in DOMAIN before :
          [after[i] EXCEPT !.status = before[i].status] = before[i]

\* C20: once the approval status is approved or rejected, no operation changes
\* the plan's structure (its tasks, their order, descriptions, agents and
\* dependencies); a structural edit is refused and changes nothing, and only
\* task status values still change.
LockedPlanKeepsStructure ==
    [][tracker.approval # "pending" =>
          /\ SameButStatus(tracker.plan, tracker'.plan)
          /\ tracker'.last \in {"add_task", "remove_task", "reorder_tasks"} =>
                tracker'.plan = tracker.plan]_vars

\* a structural edit of an approved or rejected plan was refused
StructuralEditRefusedAfterApproval ==
    /\ tracker.approval \in {"approved", "rejected"}
    /\ tracker.last \in {"add_task", "remove_task", "reorder_tasks", "update_task"}
    /\ tracker.result = "PlanLocked"
    /\ tracker.plan = StartedSession.plan

\* C25: while a session is attached, a WebSocket of the current effect run is
\* open or the poll timer is running.
AttachedHasTransport ==
    sessionId # NoSession =>
        \/ \E c \in DOMAIN sockets : sockets[c].state = "OPEN" /\ sockets[c].att = Cur
        \/ pollIntervalRef # NoTimer

\* while a session is attached, a callback of an effect run that was cleaned up
\* runs: an event of one of its sockets, its reconnect timeout, the
\* continuation of one of its fetches
StaleCallback ==
    /\ sessionId # NoSession
    /\ sessionId' = sessionId
    /\ attachment' = attachment
    /\ \/ \E c \in DOMAIN sockets :
             /\ sockets[c].att # Cur
             /\ (c \notin DOMAIN sockets' \/ sockets'[c] # sockets[c])
       \/ \E i \in DOMAIN timeouts :
             timeouts[i].att # Cur /\ timeouts' = Without(timeouts, i)
       \/ \E sid \in Sessions : sid # sessionId /\ inflight'[sid] < inflight[sid]

\* the WebSockets that are connecting or open
Channels == {c \in DOMAIN sockets : sockets[c].state \in {"CONNECTING", "OPEN"}}

\* C26: a callback of an effect run that was cleaned up changes neither the
\* status, progress, agents, plan or log, nor the poll or ping timer, and
\* constructs no WebSocket; and at most one WebSocket is connecting or open.
AttachmentsIsolated ==
    [][/\ StaleCallback =>
             /\ view_data' = view_data
             /\ activityLog' = activityLog
             /\ pollIntervalRef' = pollIntervalRef
             /\ pingIntervalRef' = pingIntervalRef
             /\ created' = created
       /\ Cardinality(Channels') <= 1]_vars

\* what the four requests of a fetch resolve to when each of them fails
AllFailed == <<Null, Null, <<>>, Null>>

\* C28: when a fetch completes whose four requests all failed, the error is
\* set and status, progress, agents and plan stay as they were.
FailedPollReported ==
    [][\A sid \in Sessions :
          FetchComplete(sid, AllFailed) =>
              /\ error' # NoError
              /\ view_data' = view_data]_vars

\* no socket of the attached session has opened, every one was closed
\* uncleanly, and nothing is left that would construct another
GaveUpReconnecting ==
    /\ sessionId # NoSession
    /\ activityLog = <<>>
    /\ DOMAIN sockets = {}
    /\ timeouts = <<>>
    /\ created > 0

\* C29: the counter stays within 0..WS_MAX_RECONNECT_ATTEMPTS, and when every
\* socket was closed uncleanly before it opened, the hook has constructed
\* WS_MAX_RECONNECT_ATTEMPTS sockets after the first one when it gives up.
ReconnectsMaxTimes ==
    /\ reconnectAttemptsRef \in 0..WS_MAX_RECONNECT_ATTEMPTS
    /\ GaveUpReconnecting => created = 1 + WS_MAX_RECONNECT_ATTEMPTS

\* C22: in the tracker's plan every dependency id of every task names a task
\* of the plan, and no two tasks have the same id.
DependenciesNameTasks ==
    /\ \A i \in DOMAIN tracker.plan :
          tracker.plan[i].dependencies \subseteq TaskIdsOf(tracker.plan)
    /\ Cardinality(TaskIdsOf(tracker.plan)) = Len(tracker.plan)

\* C23: no update_phase call moves current_phase to a phase that comes before
\* it in the order of Phases; the phase stays, moves forward, or becomes error.
PhaseOnlyForward ==
    [][(tracker.started /\ tracker'.phase # tracker.phase) =>
          \/ tracker'.phase = ErrorPhase
          \/ /\ tracker.phase # ErrorPhase
             /\ PhaseNo(tracker'.phase) > PhaseNo(tracker.phase)]_vars

\* the fields of the status that observers read
Recorded(t) == <<t.phase, t.progress, t.plan, t.approval, t.error, t.messages>>

\* C24: the first start_session creates a status with phase initializing and
\* progress 0; every later start_session leaves phase, progress, plan,
\* approval status, error and log as they were.
StartSessionIdempotent ==
    [][\A tasks \in {<<>>, StartedSession.plan} :
          tracker' = Called("start_session", start_session(tracker, tasks)) =>
              IF tracker.started
              THEN Recorded(tracker') = Recorded(tracker)
              ELSE /\ tracker'.started
                   /\ tracker'.phase = Phases[1]
                   /\ tracker'.progress = 0
                   /\ tracker'.plan = tasks
                   /\ tracker'.approval = "pending"]_vars

\* start_session was called again after the phase, the progress and the
\* approval status had moved on, and they are as they were
StartedAgainMidRun ==
    /\ tracker.last = "start_session"
    /\ tracker.ops = MaxOps
    /\ \/ tracker.phase # Phases[1]
       \/ tracker.progress # 0
       \/ tracker.approval # "pending"

DecidedOnce ==
    [][tracker.approval # "pending" =>
          /\ ~showApprovalModal'
          /\ approvals' = approvals]_vars

\* an edit request was sent and failed: it did not reach the tracker, or the
\* tracker refused it
EditFailed == edits' # edits /\ (tracker' = tracker \/ tracker'.result # "ok")

\* C30: when an edit request fails the editor's task list stays as it was,
\* and after every edit request the editor's tasks are in the order of the
\* tracker's plan.
LocalPlanFollowsServer ==
    [][/\ EditFailed => localPlan' = localPlan
       /\ edits' # edits => Order(localPlan') = Order(tracker'.plan)]_vars

====
